---- MODULE Spec2Model ----
(***************************************************************************)
(* Model of the Ln internationalization helper.                            *)
(*                                                                         *)
(*   src/source/index.ts  the TypeScript source          (impl = "source") *)
(*   src/build/index.js   the shipped JavaScript build   (impl = "build")  *)
(*                                                                         *)
(* A JavaScript string is modelled as a sequence of tokens.  A token is    *)
(* one character of the text, except that a placeholder "%name%" and a     *)
(* temporary marker "{{PH_i}}" are one token each: the texts of the model  *)
(* hold "%" and "{{" only as part of a whole placeholder or marker, so     *)
(* String.prototype.replace on the text is the replace on its tokens.      *)
(* Source texts, keys and variable values given by the caller hold no      *)
(* marker token and no "$" (a "$" is special in a JavaScript replacement   *)
(* string).                                                                *)
(***************************************************************************)
EXTENDS Integers, Sequences, FiniteSets, TLC

VARIABLES
  impl,     \* which program runs: "source" or "build"
  online,   \* this.online
  locales,  \* this.locales: language -> (key -> string)
  pending,  \* the t() calls waiting on `await translate(...)`
  last,     \* the call that completed last: its arguments and its outcome
  stale,    \* online mode: the pairs cached at the last reset() and not
            \* requested since
  failed,   \* the calls <<language, key, source text>> whose translation
            \* failed since the last reset(), the latest settled request
            \* of each (language, key)
  twin,     \* a second Ln object, of src/source/index.ts, that is given the
            \* calls and the client responses of the first one (when twin.on)
  ncalls,   \* t() and load() calls started
  nresets   \* reset() calls made

vars == <<impl, online, locales, pending, last, stale, failed, twin, ncalls,
          nresets>>

-----------------------------------------------------------------------------
(* Bounds of the exploration.                                              *)

\* longest source text (in tokens) of the text-processing specifications
MaxTextLen == 2
\* number of t() and load() calls of one run of the caching specifications
MaxCalls == 3
\* number of reset() calls of one run
MaxResets == 1
\* most lines of a .lang file
MaxLines == 2
\* most files of the directory load() lists
MaxFiles == 2

SeqUpTo(S, n) == UNION {[1..m -> S] : m \in 0..n}

-----------------------------------------------------------------------------
(* Strings.                                                                *)

EmptyStr == <<>>

\* `%${k}%`
Placeholder(k) == "%" \o k \o "%"

\* `{{PH_${index}}}`
TempPlaceholder(index) == "{{PH_" \o ToString(index) \o "}}"

\* /\s/ on one token
IsSpace(c) == c = " "

\* JavaScript truthiness of a string
Truthy(s) == s # EmptyStr

\* s.indexOf(p): position of the first occurrence of p in s, 0 when none
IndexOf(s, p) ==
  LET hits == {i \in 1..(Len(s) - Len(p) + 1) : SubSeq(s, i, i + Len(p) - 1) = p}
  IN  IF hits = {} THEN 0 ELSE CHOOSE i \in hits : \A j \in hits : i <= j

\* s.replace(p, r) with a string pattern p: the first occurrence only
ReplaceFirst(s, p, r) ==
  LET i == IndexOf(s, p)
  IN  IF i = 0 THEN s
      ELSE SubSeq(s, 1, i - 1) \o r \o SubSeq(s, i + Len(p), Len(s))

\* s.replace(new RegExp(escaped p, 'g'), r): every occurrence, left to right
RECURSIVE ReplaceAll(_, _, _)
ReplaceAll(s, p, r) ==
  LET i == IndexOf(s, p)
  IN  IF i = 0 THEN s
      ELSE SubSeq(s, 1, i - 1) \o r
             \o ReplaceAll(SubSeq(s, i + Len(p), Len(s)), p, r)

\* s.trim()
RECURSIVE Trim(_)
Trim(s) ==
  IF s = EmptyStr THEN s
  ELSE IF IsSpace(Head(s)) THEN Trim(Tail(s))
  ELSE IF IsSpace(s[Len(s)]) THEN Trim(SubSeq(s, 1, Len(s) - 1))
  ELSE s

-----------------------------------------------------------------------------
(* Arguments of t().  vars is the sequence of the object's entries         *)
(* <<name, value>> in insertion order; <<>> stands for vars omitted and    *)
(* for {} alike (neither has an entry to iterate).                         *)

\* this.default, the constructor's options.default
Default == "es"

\* the language argument left out: `args[2] || this.default`
NoLang == ""

NoVars == <<>>

VarNames(vs) == {vs[i][1] : i \in 1..Len(vs)}

\* Object.entries(vars).forEach(([k, v]) => finalText = finalText.replace(`%${k}%`, v))
RECURSIVE InterpolateSource(_, _)
InterpolateSource(text, vs) ==
  IF vs = <<>> THEN text
  ELSE InterpolateSource(
         ReplaceFirst(text, <<Placeholder(Head(vs)[1])>>, Head(vs)[2]), Tail(vs))

\* the same loop of the build, with new RegExp(`%${k}%`, 'g')
RECURSIVE InterpolateBuild(_, _)
InterpolateBuild(text, vs) ==
  IF vs = <<>> THEN text
  ELSE InterpolateBuild(
         ReplaceAll(text, <<Placeholder(Head(vs)[1])>>, Head(vs)[2]), Tail(vs))

\* the `placeholders` object: entries <<temporary marker, placeholder>>
PlaceholdersOf(vs) ==
  [i \in 1..Len(vs) |-> <<TempPlaceholder(i - 1), Placeholder(vs[i][1])>>]

\* toTranslate = toTranslate.replace(placeholder, tempPlaceholder), per key of vars
RECURSIVE ProtectSource(_, _)
ProtectSource(s, phs) ==
  IF phs = <<>> THEN s
  ELSE ProtectSource(ReplaceFirst(s, <<Head(phs)[2]>>, <<Head(phs)[1]>>), Tail(phs))

\* toTranslate.replace(new RegExp(`%${k}%`, 'g'), tempPlaceholder), per key of vars
RECURSIVE ProtectBuild(_, _)
ProtectBuild(s, phs) ==
  IF phs = <<>> THEN s
  ELSE ProtectBuild(ReplaceAll(s, <<Head(phs)[2]>>, <<Head(phs)[1]>>), Tail(phs))

\* text = text.replace(temp, original), per entry of placeholders
RECURSIVE RestoreSource(_, _)
RestoreSource(s, phs) ==
  IF phs = <<>> THEN s
  ELSE RestoreSource(ReplaceFirst(s, <<Head(phs)[1]>>, <<Head(phs)[2]>>), Tail(phs))

\* text = text.replace(new RegExp(escaped temp, 'g'), original), per entry
RECURSIVE RestoreBuild(_, _)
RestoreBuild(s, phs) ==
  IF phs = <<>> THEN s
  ELSE RestoreBuild(ReplaceAll(s, <<Head(phs)[1]>>, <<Head(phs)[2]>>), Tail(phs))

\* position i of s lies in a run of white space that touches an occurrence of temp
TouchesTemp(s, i, temp) ==
  \E j \in 1..Len(s) :
     /\ s[j] = temp
     /\ \A m \in 1..Len(s) : ((i <= m /\ m < j) \/ (j < m /\ m <= i)) => IsSpace(s[m])

\* text.replace(new RegExp(`\\s*${escaped temp}\\s*`, 'g'), temp)
RECURSIVE StripFrom(_, _, _)
StripFrom(s, i, temp) ==
  IF i > Len(s) THEN <<>>
  ELSE IF IsSpace(s[i]) /\ TouchesTemp(s, i, temp) THEN StripFrom(s, i + 1, temp)
  ELSE <<s[i]>> \o StripFrom(s, i + 1, temp)

\* Object.keys(placeholders).forEach((temp) => text = text.replace(/\s*temp\s*/g, temp))
RECURSIVE StripSpaces(_, _)
StripSpaces(s, phs) ==
  IF phs = <<>> THEN s
  ELSE StripSpaces(StripFrom(s, 1, Head(phs)[1]), Tail(phs))

\* the maximal runs of s without white space, in order
RECURSIVE Words(_, _)
Words(s, cur) ==
  IF s = <<>> THEN (IF cur = <<>> THEN <<>> ELSE <<cur>>)
  ELSE IF IsSpace(Head(s))
       THEN (IF cur = <<>> THEN <<>> ELSE <<cur>>) \o Words(Tail(s), <<>>)
       ELSE Words(Tail(s), Append(cur, Head(s)))

Contains(s, c) == \E i \in 1..Len(s) : s[i] = c

\* s.match(new RegExp(`([^\\s]*${placeholder}[^\\s]*)`, 'g')) || []
ContextMatches(s, placeholder) ==
  SelectSeq(Words(s, <<>>), LAMBDA w : Contains(w, placeholder))

\* originalMatches.forEach((originalContext, index) => ...) of restoreSpaces
RECURSIVE RestoreContexts(_, _, _, _)
RestoreContexts(result, originalMatches, translatedMatches, index) ==
  IF index > Len(originalMatches) THEN result
  ELSE RestoreContexts(
         IF index <= Len(translatedMatches)
         THEN ReplaceAll(result, translatedMatches[index], originalMatches[index])
         ELSE result,
         originalMatches, translatedMatches, index + 1)

\* restoreSpaces(original, translated, placeholders)
RECURSIVE restoreSpaces(_, _, _)
restoreSpaces(original, translated, phs) ==
  IF phs = <<>> THEN translated
  ELSE restoreSpaces(
         original,
         RestoreContexts(translated,
                         ContextMatches(original, Head(phs)[2]),
                         ContextMatches(translated, Head(phs)[2]), 1),
         Tail(phs))

-----------------------------------------------------------------------------
(* The Translation Client: translate(text, { to: language }) of            *)
(* @vitalets/google-translate-api.  It fails, or it returns a translation: *)
(* every word character is translated, white space is kept, a temporary    *)
(* marker comes back unchanged (with or without white space added around   *)
(* it), and a bare %name% placeholder comes back intact or mangled.        *)

Names == {"u", "w"}

PlaceholderTokens == {Placeholder(n) : n \in Names}

MarkerTokens == {TempPlaceholder(i) : i \in 0..(Cardinality(Names) - 1)}

Translated(c, language) == c \o "_" \o language

Mangled(c) == "~" \o c

TranslateToken(c, language, mangle) ==
  IF IsSpace(c) \/ c \in MarkerTokens THEN c
  ELSE IF c \in PlaceholderTokens THEN (IF mangle THEN Mangled(c) ELSE c)
  ELSE Translated(c, language)

RECURSIVE PadMarkers(_)
PadMarkers(s) ==
  IF s = <<>> THEN <<>>
  ELSE (IF Head(s) \in MarkerTokens THEN <<" ", Head(s), " ">> ELSE <<Head(s)>>)
         \o PadMarkers(Tail(s))

ClientResults(s, language) ==
  LET word(mangle) == [i \in 1..Len(s) |-> TranslateToken(s[i], language, mangle)]
  IN  {word(mangle) : mangle \in BOOLEAN}
        \cup {PadMarkers(word(mangle)) : mangle \in BOOLEAN}

-----------------------------------------------------------------------------
(* this.locales, a Map of Maps.                                            *)

\* new Map()
EmptyMap == <<>>

\* mutant of EnsureLang: the language's map is replaced also when it exists
EnsureLangFresh(loc, language) ==
  [l \in DOMAIN loc \cup {language} |->
     IF l = language THEN EmptyMap ELSE loc[l]]

\* if (!this.locales.has(language)) this.locales.set(language, new Map())
EnsureLang(loc, language) ==
  IF language \in DOMAIN loc THEN loc
  ELSE [l \in DOMAIN loc \cup {language} |->
          IF l = language THEN EmptyMap ELSE loc[l]]

\* this.locales.get(language).has(key)
HasEntry(loc, language, key) ==
  language \in DOMAIN loc /\ key \in DOMAIN loc[language]

\* this.locales.get(language).set(key, value)
SetEntry(loc, language, key, value) ==
  [loc EXCEPT ![language] =
     [k \in DOMAIN loc[language] \cup {key} |->
        IF k = key THEN value ELSE loc[language][k]]]

\* the pairs (language, key) that have an entry
Pairs(loc) == UNION {{<<l, k>> : k \in DOMAIN loc[l]} : l \in DOMAIN loc}

\* language = args[..] || this.default
Language(lang) == IF lang = NoLang THEN Default ELSE lang

-----------------------------------------------------------------------------
(* Ln.t.  The part of a call up to its return or up to `await translate`   *)
(* is SourceStart / BuildStart; the part after the await is SourceResume / *)
(* BuildResume.  In local mode the call has no textToTranslate (undefined, *)
(* which is falsy like the empty string).                                  *)

Returned(loc, ret, logs) ==
  [await |-> FALSE, locales |-> loc, ret |-> ret, logs |-> logs,
   sent |-> EmptyStr, phs |-> <<>>]

Awaiting(loc, sent, phs) ==
  [await |-> TRUE, locales |-> loc, ret |-> EmptyStr, logs |-> {},
   sent |-> sent, phs |-> phs]

\* mutant of Fallback: `|| key` is left out
FallbackTextOnly(textToTranslate, key) == textToTranslate

\* textToTranslate || key
Fallback(textToTranslate, key) ==
  IF Truthy(textToTranslate) THEN textToTranslate ELSE key

\* src/source/index.ts: `if (!locale.has(key)) locale.set(key, textToTranslate)`
SourceSeed(loc, language, key, textToTranslate) ==
  LET a == EnsureLang(loc, language)
  IN  IF key \in DOMAIN a[language] THEN a
      ELSE SetEntry(a, language, key, textToTranslate)

\* src/source/index.ts: the test `!text` on `let text = locale.get(key)`
SourceMiss(loc, language, key) ==
  ~HasEntry(loc, language, key) \/ ~Truthy(loc[language][key])

\* mutant of SourceArgsMissing: the key is not tested
SourceArgsMissingTextOnly(textToTranslate, key) == ~Truthy(textToTranslate)

\* src/source/index.ts: `if (!textToTranslate || !key)`
SourceArgsMissing(textToTranslate, key) ==
  ~Truthy(textToTranslate) \/ ~Truthy(key)

SourceStart(loc, onl, text, key, lang, vs) ==
  LET language == Language(lang)
      textToTranslate == IF onl THEN text ELSE EmptyStr
  IN  IF onl /\ SourceArgsMissing(textToTranslate, key)
      THEN Returned(loc, Fallback(textToTranslate, key), {"error"})
      ELSE
        LET seeded == IF onl THEN SourceSeed(loc, language, key, textToTranslate)
                      ELSE loc
            loc2 == EnsureLang(seeded, language)
            phs == PlaceholdersOf(vs)
        IN  IF SourceMiss(loc2, language, key) /\ onl /\ Truthy(textToTranslate)
            THEN Awaiting(loc2, ProtectSource(textToTranslate, phs), phs)
            ELSE
              LET resolved == IF SourceMiss(loc2, language, key)
                              THEN Fallback(textToTranslate, key)
                              ELSE loc2[language][key]
              IN  Returned(loc2, InterpolateSource(resolved, vs), {})

\* resp: [ok |-> TRUE, text |-> the translation] or [ok |-> FALSE, ...];
\* call.detached: reset() cleared this.locales after the call took `locale`
SourceResume(loc, call, resp) ==
  IF resp.ok
  THEN LET text == RestoreSource(resp.text, call.phs)
       IN  Returned(IF call.detached THEN loc
                    ELSE SetEntry(loc, call.lang, call.key, text),
                    InterpolateSource(text, call.vars), {})
  ELSE LET text == RestoreSource(call.text, call.phs)
       IN  Returned(loc, InterpolateSource(text, call.vars), {"error"})

\* mutant of BuildMiss: the store is not consulted
BuildMissAlways(loc, language, key) == TRUE

\* src/build/index.js: the test `text === undefined` on `let text = locale.get(key)`
BuildMiss(loc, language, key) == ~HasEntry(loc, language, key)

BuildStart(loc, onl, text, key, lang, vs) ==
  LET language == Language(lang)
      textToTranslate == IF onl THEN text ELSE EmptyStr
      loc2 == EnsureLang(loc, language)
      phs == PlaceholdersOf(vs)
  IN  IF BuildMiss(loc2, language, key) /\ onl /\ Truthy(textToTranslate)
      THEN Awaiting(loc2, ProtectBuild(textToTranslate, phs), phs)
      ELSE
        LET resolved == IF BuildMiss(loc2, language, key)
                        THEN Fallback(textToTranslate, key)
                        ELSE loc2[language][key]
        IN  Returned(loc2, InterpolateBuild(resolved, vs), {})

\* mutant of BuildTranslated: the variables are interpolated into the text
\* that is stored
BuildTranslatedInterpolated(call, res) ==
  InterpolateBuild(restoreSpaces(call.text,
                                 RestoreBuild(StripSpaces(res, call.phs), call.phs),
                                 call.phs),
                   call.vars)

\* src/build/index.js: the text stored and interpolated after a translation
BuildTranslated(call, res) ==
  restoreSpaces(call.text,
                RestoreBuild(StripSpaces(res, call.phs), call.phs),
                call.phs)

\* mutant of BuildFailed: the catch block falls back to the protected text
BuildFailedProtected(call) == ProtectBuild(call.text, call.phs)

\* src/build/index.js: the catch block's text
BuildFailed(call) == RestoreBuild(call.text, call.phs)

\* mutant of BuildFailedStore: a failed translation is not cached
BuildFailedStoreDropped(loc, call, text) == loc

\* mutant of BuildFailedStore: the catch block caches the protected text
BuildFailedStoreProtected(loc, call, text) ==
  IF call.detached THEN loc
  ELSE SetEntry(loc, call.lang, call.key, ProtectBuild(call.text, call.phs))

\* src/build/index.js: the catch block's `locale.set(key, text)`
BuildFailedStore(loc, call, text) ==
  IF call.detached THEN loc ELSE SetEntry(loc, call.lang, call.key, text)

\* mutant of BuildResume: the language's map is taken from this.locales
\* after the await, not before it
BuildResumeRefetched(loc, call, resp) ==
  LET text == IF resp.ok THEN BuildTranslated(call, resp.text) ELSE BuildFailed(call)
  IN  Returned(SetEntry(EnsureLang(loc, call.lang), call.lang, call.key, text),
               InterpolateBuild(text, call.vars),
               IF resp.ok THEN {} ELSE {"error"})

BuildResume(loc, call, resp) ==
  IF resp.ok
  THEN LET text == BuildTranslated(call, resp.text)
       IN  Returned(IF call.detached THEN loc
                    ELSE SetEntry(loc, call.lang, call.key, text),
                    InterpolateBuild(text, call.vars), {})
  ELSE LET text == BuildFailed(call)
       IN  Returned(BuildFailedStore(loc, call, text),
                    InterpolateBuild(text, call.vars), {"error"})

\* mutant of TStart: a call in local mode takes the online path of the
\* source, its key being the source text
TStartSeeding(loc, onl, text, key, lang, vs) ==
  SourceStart(loc, TRUE, key, key, lang, vs)

TStart(loc, onl, text, key, lang, vs) ==
  IF impl = "source" THEN SourceStart(loc, onl, text, key, lang, vs)
  ELSE BuildStart(loc, onl, text, key, lang, vs)

TResume(loc, call, resp) ==
  IF impl = "source" THEN SourceResume(loc, call, resp)
  ELSE BuildResume(loc, call, resp)

-----------------------------------------------------------------------------
(* Ln.load.  The directory is what the file system shows during the call:  *)
(* kind "missing" (fs.promises.stat rejects), "file" (not a directory) or  *)
(* "dir" with the entries readdir lists, in order.  An entry is            *)
(* [base, ext, readable, lines]: its name is base \o ext, ext is           *)
(* path.extname(name), lines is its content split at "\n", and readFile    *)
(* rejects when it is not readable (a subdirectory).                       *)

\* path.basename(file, ".lang")
LanguageOf(e) == IF e.ext = ".lang" THEN e.base ELSE e.base \o e.ext

\* /^\#/.test(line)
IsComment(line) == line # <<>> /\ Head(line) = "#"

\* mutant of CleanLines: lines starting with "#" are not filtered out
RECURSIVE CleanLinesKeepComments(_)
CleanLinesKeepComments(lines) ==
  IF lines = <<>> THEN <<>>
  ELSE LET line == Trim(Head(lines))
       IN  (IF line # EmptyStr THEN <<line>> ELSE <<>>)
             \o CleanLinesKeepComments(Tail(lines))

\* content.split("\n").map((line) => line.trim())
\*        .filter((line) => line !== "" && !/^\#/.test(line))
RECURSIVE CleanLines(_)
CleanLines(lines) ==
  IF lines = <<>> THEN <<>>
  ELSE LET line == Trim(Head(lines))
       IN  (IF line # EmptyStr /\ ~IsComment(line) THEN <<line>> ELSE <<>>)
             \o CleanLines(Tail(lines))

\* mutant of ParseLine: the value is stored as matched, not trimmed
ParseLineUntrimmed(line) ==
  LET eq == IndexOf(line, <<"=">>)
  IN  IF eq <= 1 \/ eq = Len(line)
      THEN [ok |-> FALSE, key |-> EmptyStr, value |-> EmptyStr]
      ELSE [ok |-> TRUE, key |-> Trim(SubSeq(line, 1, eq - 1)),
            value |-> SubSeq(line, eq + 1, Len(line))]

\* line.match(/^([^=]+)=(.*)$/), `!match || !match[1] || !match[2]`,
\* key.trim(), value.trim()
ParseLine(line) ==
  LET eq == IndexOf(line, <<"=">>)
  IN  IF eq <= 1 \/ eq = Len(line)
      THEN [ok |-> FALSE, key |-> EmptyStr, value |-> EmptyStr]
      ELSE [ok |-> TRUE, key |-> Trim(SubSeq(line, 1, eq - 1)),
            value |-> Trim(SubSeq(line, eq + 1, Len(line)))]

\* for (let i = 0; i < lines.length; i++) { ... locale.set(key.trim(), value.trim()) }
RECURSIVE LoadLines(_, _, _)
LoadLines(loc, language, lines) ==
  IF lines = <<>> THEN loc
  ELSE LET m == ParseLine(Head(lines))
       IN  LoadLines(IF m.ok THEN SetEntry(loc, language, m.key, m.value) ELSE loc,
                     language, Tail(lines))

\* `!content.length`
ContentEmpty(lines) == lines = <<>> \/ lines = <<EmptyStr>>

\* mutant of LoadFile: the language's map is made anew for every file
LoadFileReplacing(loc, e) ==
  IF ContentEmpty(e.lines) \/ CleanLines(e.lines) = <<>> THEN loc
  ELSE LoadLines([EnsureLang(loc, LanguageOf(e)) EXCEPT ![LanguageOf(e)] = EmptyMap],
                 LanguageOf(e), CleanLines(e.lines))

\* one file of the loop `for (const file of files)`
LoadFile(loc, e) ==
  IF ContentEmpty(e.lines) \/ CleanLines(e.lines) = <<>> THEN loc
  ELSE LoadLines(EnsureLang(loc, LanguageOf(e)), LanguageOf(e), CleanLines(e.lines))

\* the loop `for (const file of files)`; a readFile that rejects ends it in
\* the catch block
RECURSIVE LoadFiles(_, _)
LoadFiles(loc, entries) ==
  IF entries = <<>> THEN [locales |-> loc, logs |-> {}]
  ELSE IF ~Head(entries).readable THEN [locales |-> loc, logs |-> {"error"}]
  ELSE LoadFiles(LoadFile(loc, Head(entries)), Tail(entries))

\* the fs.promises calls of load(), in order: stat, readdir, and readFile for
\* every listed file up to the first one that rejects
RECURSIVE ReadFiles(_)
ReadFiles(entries) ==
  IF entries = <<>> THEN <<>>
  ELSE <<"readFile">> \o (IF Head(entries).readable THEN ReadFiles(Tail(entries))
                          ELSE <<>>)

FsCalls(onl, dir) ==
  IF onl THEN <<>>
  ELSE IF dir.kind # "dir" THEN <<"stat">>
  ELSE IF ~\E i \in 1..Len(dir.entries) : dir.entries[i].ext = ".lang"
       THEN <<"stat", "readdir">>
  ELSE <<"stat", "readdir">> \o ReadFiles(dir.entries)

\* mutant of LoadResult: the directory is loaded in online mode too
LoadResultAnyMode(loc, onl, dir) ==
  IF dir.kind = "missing" THEN [locales |-> loc, logs |-> {"error"}]
  ELSE IF dir.kind = "file" THEN [locales |-> loc, logs |-> {"fatal"}]
  ELSE IF ~\E i \in 1..Len(dir.entries) : dir.entries[i].ext = ".lang"
       THEN [locales |-> loc, logs |-> {"warn"}]
  ELSE LoadFiles(loc, dir.entries)

\* mutant of LoadResult: the files are read also when none is a .lang file
LoadResultAnyFile(loc, onl, dir) ==
  IF onl THEN [locales |-> loc, logs |-> {}]
  ELSE IF dir.kind = "missing" THEN [locales |-> loc, logs |-> {"error"}]
  ELSE IF dir.kind = "file" THEN [locales |-> loc, logs |-> {"fatal"}]
  ELSE LoadFiles(loc, dir.entries)

\* load()
LoadResult(loc, onl, dir) ==
  IF onl THEN [locales |-> loc, logs |-> {}]
  ELSE IF dir.kind = "missing" THEN [locales |-> loc, logs |-> {"error"}]
  ELSE IF dir.kind = "file" THEN [locales |-> loc, logs |-> {"fatal"}]
  ELSE IF ~\E i \in 1..Len(dir.entries) : dir.entries[i].ext = ".lang"
       THEN [locales |-> loc, logs |-> {"warn"}]
  ELSE LoadFiles(loc, dir.entries)

-----------------------------------------------------------------------------
(* The state machine.                                                      *)

NoCall ==
  [op |-> "none", text |-> EmptyStr, key |-> EmptyStr, lang |-> NoLang,
   vars |-> NoVars, hit |-> FALSE, pre |-> EmptyStr, invoked |-> FALSE,
   ok |-> FALSE, sent |-> EmptyStr, resp |-> EmptyStr, ret |-> EmptyStr,
   logs |-> {}, repeat |-> FALSE, fresh |-> FALSE, before |-> <<>>,
   dir |-> <<>>, fs |-> <<>>, revar |-> FALSE]

\* the second object: its store, the outcome of its last call, and the call
\* of it that waits on the Translation Client (at most one: <<>> when none)
NoTwin ==
  [on |-> FALSE, locales |-> <<>>, ret |-> EmptyStr, invoked |-> FALSE,
   wait |-> <<>>]

\* the second object's t(text, key, lang, vs) up to its return or its await
TwinCall(tw, onl, text, key, lang, vs) ==
  IF ~tw.on THEN tw
  ELSE LET out == SourceStart(tw.locales, onl, text, key, lang, vs)
       IN  [on |-> TRUE, locales |-> out.locales, ret |-> out.ret,
            invoked |-> out.await,
            wait |-> IF out.await
                     THEN <<[text |-> text, key |-> key, lang |-> Language(lang),
                             vars |-> vs, phs |-> out.phs, detached |-> FALSE]>>
                     ELSE <<>>]

\* the second object's call resumes with the response the first one got
TwinResume(tw, resp) ==
  IF ~tw.on \/ tw.wait = <<>> THEN tw
  ELSE LET out == SourceResume(tw.locales, tw.wait[1], resp)
       IN  [tw EXCEPT !.locales = out.locales, !.ret = out.ret, !.wait = <<>>]

\* new Ln({ default: "es", online: o }) of program i
InitWith(i, o) ==
  /\ impl = i
  /\ online = o
  /\ locales = <<>>
  /\ pending = <<>>
  /\ last = NoCall
  /\ stale = {}
  /\ failed = {}
  /\ twin = NoTwin
  /\ ncalls = 0
  /\ nresets = 0

\* no call is waiting on the Translation Client
Idle == pending = <<>>

Remove(seq, i) == SubSeq(seq, 1, i - 1) \o SubSeq(seq, i + 1, Len(seq))

\* await ln.t(text, key, lang, vs) in online mode, ln.t(key, lang, vs) in local
\* mode (text is then EmptyStr): the call up to its return or its await
TCall(text, key, lang, vs) ==
  LET language == Language(lang)
      out == TStart(locales, online, text, key, lang, vs)
      hit == HasEntry(locales, language, key)
      call == [op |-> "t", text |-> text, key |-> key, lang |-> language,
               vars |-> vs, hit |-> hit,
               pre |-> IF hit THEN locales[language][key] ELSE EmptyStr,
               invoked |-> out.await, ok |-> FALSE, sent |-> out.sent,
               resp |-> EmptyStr, ret |-> out.ret, logs |-> out.logs,
               repeat |-> /\ last.op = "t" /\ last.invoked /\ last.text = text
                          /\ last.key = key /\ last.lang = language,
               fresh |-> <<language, key>> \in stale,
               before |-> locales, dir |-> <<>>, fs |-> <<>>,
               revar |-> /\ last.op = "t" /\ last.invoked /\ last.text = text
                         /\ last.key = key /\ last.lang = language
                         /\ last.vars # vs]
  IN  /\ locales' = out.locales
      /\ stale' = stale \ {<<language, key>>}
      /\ IF out.await
         THEN /\ pending' = Append(pending, [call |-> call, phs |-> out.phs,
                                             detached |-> FALSE])
              /\ last' = last
         ELSE /\ pending' = pending
              /\ last' = call
      /\ twin' = TwinCall(twin, online, text, key, lang, vs)
      /\ UNCHANGED <<impl, online, failed, nresets>>

\* the resumption record SourceResume / BuildResume read
Waiting(p) ==
  [text |-> p.call.text, key |-> p.call.key, lang |-> p.call.lang,
   vars |-> p.call.vars, phs |-> p.phs, detached |-> p.detached]

Complete(i, resp) ==
  LET p == pending[i]
      out == TResume(locales, Waiting(p), resp)
  IN  /\ locales' = out.locales
      /\ pending' = Remove(pending, i)
      /\ last' = [p.call EXCEPT !.ok = resp.ok, !.resp = resp.text,
                                !.ret = out.ret, !.logs = out.logs]
      /\ failed' =
           IF p.detached THEN failed
           ELSE {f \in failed : <<f[1], f[2]>> # <<p.call.lang, p.call.key>>}
                  \cup (IF resp.ok THEN {}
                        ELSE {<<p.call.lang, p.call.key, p.call.text>>})
      /\ twin' = TwinResume(twin, resp)
      /\ UNCHANGED <<impl, online, stale, ncalls, nresets>>

\* `await translate(toTranslate, { to: language })` resolves
TranslateReturns ==
  \E i \in 1..Len(pending) :
    \E res \in ClientResults(pending[i].call.sent, pending[i].call.lang) :
      Complete(i, [ok |-> TRUE, text |-> res])

\* `await translate(toTranslate, { to: language })` rejects
TranslateFails ==
  \E i \in 1..Len(pending) : Complete(i, [ok |-> FALSE, text |-> EmptyStr])

\* mutant of Cleared: only the default language's map is dropped
ClearedDefaultOnly(loc) == [l \in DOMAIN loc \ {Default} |-> loc[l]]

\* this.locales.clear()
Cleared(loc) == <<>>

\* the second object's reset()
TwinReset(tw) ==
  IF ~tw.on THEN tw
  ELSE [tw EXCEPT !.locales = Cleared(tw.locales),
                  !.wait = [i \in 1..Len(tw.wait) |->
                              [tw.wait[i] EXCEPT !.detached = TRUE]]]

\* ln.reset()
Reset ==
  /\ locales' = Cleared(locales)
  /\ stale' = IF online THEN Pairs(locales) ELSE {}
  /\ failed' = {}
  /\ twin' = TwinReset(twin)
  /\ pending' = [i \in 1..Len(pending) |-> [pending[i] EXCEPT !.detached = TRUE]]
  /\ last' = [NoCall EXCEPT !.op = "reset", !.before = locales]
  /\ UNCHANGED <<impl, online, ncalls>>

\* await ln.load(), the directory being dir during the call
Load(dir) ==
  LET out == LoadResult(locales, online, dir)
  IN  /\ locales' = out.locales
      /\ last' = [NoCall EXCEPT !.op = "load", !.logs = out.logs,
                                !.before = locales, !.dir = dir,
                                !.fs = FsCalls(online, dir),
                                !.repeat = last.op = "load" /\ last.dir = dir]
      /\ UNCHANGED <<impl, online, pending, stale, failed, twin>>

-----------------------------------------------------------------------------
(* Inputs.                                                                 *)

TextAlphabet == {"a", " ", Placeholder("u")}

Texts == SeqUpTo(TextAlphabet, MaxTextLen)

VarsSet == {NoVars,
            <<<<"u", <<"A">>>>>>,
            <<<<"w", <<"B">>>>, <<"u", <<"A">>>>>>}

\* the key of the text-processing specifications of the build
OneKey == {<<"k">>}

\* the keys of the text-processing specifications of the source: no key, a key
TextKeys == {EmptyStr, <<"k">>}

\* t() of the text-processing specifications: every text, the default
\* language, calls made one after another (each awaited before the next)
TOnline(keys) ==
  /\ Idle
  /\ \E text \in Texts, key \in keys, vs \in VarsSet : TCall(text, key, NoLang, vs)
  /\ UNCHANGED ncalls

ResetOnline == Idle /\ Reset /\ UNCHANGED nresets

\* SpecBuildOnline: src/build/index.js in online mode
TBuildOnline == TOnline(OneKey)

NextBuildOnline == TBuildOnline \/ TranslateReturns \/ TranslateFails \/ ResetOnline

SpecBuildOnline == InitWith("build", TRUE) /\ [][NextBuildOnline]_vars

\* SpecBuildVars: src/build/index.js in online mode, the calls differing in
\* the values of vars
ValueVars == {NoVars, <<<<"u", <<"A">>>>>>, <<<<"u", <<"C">>>>>>}

TBuildVars ==
  /\ Idle
  /\ \E text \in Texts, vs \in ValueVars : TCall(text, <<"k">>, NoLang, vs)
  /\ UNCHANGED ncalls

NextBuildVars == TBuildVars \/ TranslateReturns \/ TranslateFails \/ ResetOnline

SpecBuildVars == InitWith("build", TRUE) /\ [][NextBuildVars]_vars

\* SpecBuildSource: the calls of SpecBuildOnline made on an Ln of
\* src/build/index.js and, with the same arguments and the same client
\* responses, on an Ln of src/source/index.ts
InitBuildSource ==
  /\ impl = "build"
  /\ online = TRUE
  /\ locales = <<>>
  /\ pending = <<>>
  /\ last = NoCall
  /\ stale = {}
  /\ failed = {}
  /\ twin = [NoTwin EXCEPT !.on = TRUE]
  /\ ncalls = 0
  /\ nresets = 0

SpecBuildSource == InitBuildSource /\ [][NextBuildOnline]_vars

\* SpecSourceOnline: src/source/index.ts in online mode
TSourceOnline == TOnline(TextKeys)

NextSourceOnline == TSourceOnline \/ ResetOnline

SpecSourceOnline == InitWith("source", TRUE) /\ [][NextSourceOnline]_vars

\* SpecBuildCache: src/build/index.js in online mode, two keys in two
\* languages, at most MaxCalls calls of t() and MaxResets calls of reset()
CacheTexts == {EmptyStr, <<"a">>}

CacheKeys == {<<"k">>, <<"j">>}

LangArgs == {NoLang, "en"}

TBuildCache ==
  /\ Idle
  /\ ncalls < MaxCalls
  /\ ncalls' = ncalls + 1
  /\ \E text \in CacheTexts, key \in CacheKeys, lang \in LangArgs :
       TCall(text, key, lang, NoVars)

ResetCache ==
  /\ Idle
  /\ nresets < MaxResets
  /\ nresets' = nresets + 1
  /\ Reset

NextBuildCache == TBuildCache \/ TranslateReturns \/ TranslateFails \/ ResetCache

SpecBuildCache == InitWith("build", TRUE) /\ [][NextBuildCache]_vars

\* SpecBuildLive: the calls of SpecBuildCache in either mode, with a
\* Translation Client whose every call completes, with a result or with a
\* failure
ClientCompletes == TranslateReturns \/ TranslateFails

InitBuildLive == \E o \in BOOLEAN : InitWith("build", o)

SpecBuildLive ==
  InitBuildLive /\ [][NextBuildCache]_vars /\ WF_vars(ClientCompletes)

\* SpecBuildOverlap: src/build/index.js in online mode, the caller not
\* awaiting: t() and reset() are called while earlier t() calls wait on the
\* Translation Client, which settles the requests in any order
TBuildOverlap ==
  /\ ncalls < MaxCalls
  /\ ncalls' = ncalls + 1
  /\ \E text \in CacheTexts, key \in CacheKeys, lang \in LangArgs :
       TCall(text, key, lang, NoVars)

ResetOverlap ==
  /\ nresets < MaxResets
  /\ nresets' = nresets + 1
  /\ Reset

NextBuildOverlap ==
  TBuildOverlap \/ TranslateReturns \/ TranslateFails \/ ResetOverlap

SpecBuildOverlap == InitWith("build", TRUE) /\ [][NextBuildOverlap]_vars

\* the lines of a .lang file: one of every kind load() tells apart
Lines ==
  { <<"k", "=", "v">>,                      \* key=value
    <<" ", "k", " ", "=", " ", "w", "=", "v", " ">>,
                                            \* the same key, white space around
                                            \* and a second "=" in the value
    <<"k", "=">>,                           \* no value
    <<"=", "v">>,                           \* no key
    <<"k", "v">>,                           \* no "="
    <<"#", "k", "=", "v">>,                 \* a comment
    <<" ">> }                               \* a blank line

Contents == SeqUpTo(Lines, MaxLines)

LangFile(base, lines) ==
  [base |-> base, ext |-> ".lang", readable |-> TRUE, lines |-> lines]

Directory(entries) == [kind |-> "dir", entries |-> entries]

\* SpecSourceLocal: src/source/index.ts in local mode, the directory holding
\* the one file es.lang
LocalKeys == {<<"k">>, <<"j">>, <<Placeholder("u")>>}

LocalVars == {NoVars, <<<<"u", <<"A">>>>>>, <<<<"w", <<"B">>>>>>}

TLocal ==
  /\ \E key \in LocalKeys, lang \in LangArgs, vs \in LocalVars :
       TCall(EmptyStr, key, lang, vs)
  /\ UNCHANGED ncalls

LoadLocal ==
  /\ \E lines \in Contents : Load(Directory(<<LangFile(Default, lines)>>))
  /\ UNCHANGED <<ncalls, nresets>>

NextSourceLocal == TLocal \/ LoadLocal \/ ResetOnline

SpecSourceLocal == InitWith("source", FALSE) /\ [][NextSourceLocal]_vars

\* SpecSourceLoad: src/source/index.ts in either mode; load() finds the
\* directory missing, a file, or a directory listing at most MaxFiles of:
\* es.lang, en.lang, es.txt and a subdirectory (readFile rejects on it)
LoadLine == {<<"k", "=", "v">>,
             <<" ", "k", " ", "=", " ", "w", "=", "v", " ">>,
             <<"j", "=", "v">>}

OtherFile(base, ext, lines) ==
  [base |-> base, ext |-> ext, readable |-> TRUE, lines |-> lines]

SubDirectory(base) ==
  [base |-> base, ext |-> "", readable |-> FALSE, lines |-> <<>>]

Files ==
  {LangFile(Default, <<line>>) : line \in LoadLine}
    \cup {LangFile("en", <<<<"k", "=", "v">>>>),
          OtherFile(Default, ".txt", <<<<"k", "=", "v">>>>),
          SubDirectory("sub")}

Directories ==
  {[kind |-> "missing", entries |-> <<>>], [kind |-> "file", entries |-> <<>>]}
    \cup {Directory(entries) : entries \in SeqUpTo(Files, MaxFiles)}

LoadAny ==
  /\ \E dir \in Directories : Load(dir)
  /\ UNCHANGED <<ncalls, nresets>>

\* t("a", "k", lang) in online mode, t("k", lang) in local mode
TAny ==
  /\ \E lang \in LangArgs :
       TCall(IF online THEN <<"a">> ELSE EmptyStr, <<"k">>, lang, NoVars)
  /\ UNCHANGED ncalls

NextSourceLoad == TAny \/ LoadAny \/ ResetOnline

InitSourceLoad == \E o \in BOOLEAN : InitWith("source", o)

SpecSourceLoad == InitSourceLoad /\ [][NextSourceLoad]_vars

Spec == SpecBuildOnline

-----------------------------------------------------------------------------
(* What the claims speak of.                                               *)

\* the text in which every %name% with name in vs is replaced by vs's value
\* for name, and everything else is kept
RECURSIVE SubstituteEvery(_, _)
SubstituteEvery(text, vs) ==
  IF text = <<>> THEN <<>>
  ELSE LET named == {i \in 1..Len(vs) : Placeholder(vs[i][1]) = Head(text)}
       IN  (IF named = {} THEN <<Head(text)>>
            ELSE vs[CHOOSE i \in named : TRUE][2])
             \o SubstituteEvery(Tail(text), vs)

\* the last completed operation is a t() call of program i in online mode
OnlineT(i) == impl = i /\ online /\ last.op = "t"

\* the last completed operation is a t() call of program i in local mode
LocalT(i) == impl = i /\ ~online /\ last.op = "t"

\* the last completed operation is a load() of program i in local mode that
\* listed a directory
LocalLoad(i) == impl = i /\ ~online /\ last.op = "load" /\ last.dir.kind = "dir"

\* the value the store holds for the last call's (language, key)
StoredNow == locales[last.lang][last.key]

\* what the source's t(key, language) returns in local mode, the store being loc
SourceReturn(loc, key, language) ==
  SourceStart(loc, FALSE, EmptyStr, key, language, NoVars).ret

\* a line that, trimmed, is no comment and is key=value with a key and a value
LineValid(line) ==
  LET t == Trim(line)
      eq == IndexOf(t, <<"=">>)
  IN  ~IsComment(t) /\ 1 < eq /\ eq < Len(t)

\* its key and its value, split at the first "=" and trimmed
LineKey(line) ==
  LET t == Trim(line) IN Trim(SubSeq(t, 1, IndexOf(t, <<"=">>) - 1))

LineValue(line) ==
  LET t == Trim(line) IN Trim(SubSeq(t, IndexOf(t, <<"=">>) + 1, Len(t)))

\* the lines of the directory's .lang files: <<entry, line>> positions
LangLines(dir) ==
  {p \in (1..Len(dir.entries)) \X (1..MaxLines + 1) :
     /\ dir.entries[p[1]].ext = ".lang"
     /\ p[2] <= Len(dir.entries[p[1]].lines)}

LineAt(dir, p) == dir.entries[p[1]].lines[p[2]]

\* load() reached the entry: no entry listed before it was unreadable
Reached(dir, e) == \A j \in 1..e : dir.entries[j].readable

\* a valid line for the same language and key comes later in the listing
Overwritten(dir, p) ==
  \E e \in 1..Len(dir.entries) :
    \E l \in 1..Len(dir.entries[e].lines) :
      /\ e > p[1] \/ (e = p[1] /\ l > p[2])
      /\ LanguageOf(dir.entries[e]) = LanguageOf(dir.entries[p[1]])
      /\ LineValid(dir.entries[e].lines[l])
      /\ LineKey(dir.entries[e].lines[l]) = LineKey(LineAt(dir, p))

-----------------------------------------------------------------------------
(* C2: in online mode the build serves a (language, key) that has an entry *)
(* from the store: the call returns the stored value with the variables    *)
(* substituted and does not invoke the Translation Client; and two         *)
(* consecutive calls with the same (text, key, language) do not both       *)
(* invoke the client.                                                      *)
C2_ServedFromStore ==
  OnlineT("build") =>
    /\ last.hit => /\ ~last.invoked
                   /\ last.ret = SubstituteEvery(last.pre, last.vars)
    /\ ~(last.repeat /\ last.invoked)

C2_Witness ==
  /\ OnlineT("build") /\ last.hit
  /\ last.vars # NoVars /\ last.ret # last.pre

(* C4: when the Translation Client fails, the build's t() returns the      *)
(* original source text with the variables substituted.                    *)
C4_FailureFallsBack ==
  (OnlineT("build") /\ last.invoked /\ ~last.ok) =>
    last.ret = SubstituteEvery(last.text, last.vars)

C4_Witness ==
  /\ OnlineT("build") /\ last.invoked /\ ~last.ok
  /\ last.ret # last.text

(* C6: on a miss of the build every %name% of the source text, named in    *)
(* vars or not, is a temporary marker in the text handed to the client,    *)
(* and after a translation the stored text has the length of the source    *)
(* text with every %name% where the source text has it.                    *)
C6_EveryPlaceholderProtected ==
  (OnlineT("build") /\ last.invoked) =>
    /\ \A i \in 1..Len(last.text) :
         last.text[i] \in PlaceholderTokens => last.sent[i] \in MarkerTokens
    /\ last.ok =>
         /\ HasEntry(locales, last.lang, last.key)
         /\ Len(StoredNow) = Len(last.text)
         /\ \A i \in 1..Len(last.text) :
              last.text[i] \in PlaceholderTokens => StoredNow[i] = last.text[i]

(* C3 as claimed: after reset(), the next t() call of the build for a      *)
(* (language, key) that was cached before the reset invokes the            *)
(* Translation Client again, whatever the call's source text.              *)
C3_ResetForcesInvocation_AsClaimed ==
  (OnlineT("build") /\ last.fresh) => last.invoked

(* C3 as amended: after reset(), the next t() call of the build with a     *)
(* non-empty source text for a (language, key) that was cached before the  *)
(* reset invokes the Translation Client again, in every language.          *)
C3_ResetForcesInvocation ==
  (OnlineT("build") /\ last.fresh /\ Truthy(last.text)) => last.invoked

C3_Witness ==
  /\ OnlineT("build") /\ last.fresh /\ last.invoked
  /\ last.lang # Default /\ stale # {}

(* C1: in online mode, when the store has no entry for (language, key) and  *)
(* the source text and the key are non-empty, t() of the source invokes    *)
(* the Translation Client, and after a successful translation the store    *)
(* maps (language, key) to the text t() returns before substitution.       *)
C1_MissInvokesClient ==
  (OnlineT("source") /\ ~last.hit /\ Truthy(last.text) /\ Truthy(last.key)) =>
    /\ last.invoked
    /\ last.ok => /\ HasEntry(locales, last.lang, last.key)
                  /\ last.ret = InterpolateSource(StoredNow, last.vars)

(* C8: in online mode, when the source text or the key is empty, t() of    *)
(* the source reports an error, returns the source text if it is non-empty *)
(* and otherwise the key, does not invoke the Translation Client and       *)
(* leaves the store unchanged.                                             *)
C8_MissingArguments ==
  (OnlineT("source") /\ (~Truthy(last.text) \/ ~Truthy(last.key))) =>
    /\ "error" \in last.logs
    /\ last.ret = (IF Truthy(last.text) THEN last.text ELSE last.key)
    /\ ~last.invoked
    /\ locales = last.before

C8_Witness ==
  /\ OnlineT("source") /\ ~Truthy(last.text) /\ Truthy(last.key)
  /\ last.ret = last.key /\ "error" \in last.logs
  /\ Pairs(locales) # {}

(* C5: t() of the source returns the resolved text with every occurrence   *)
(* of %name%, for every name in vars, replaced by the variable's value and *)
(* every other %x% kept.                                                   *)
C5_EveryOccurrenceReplaced ==
  (OnlineT("source") /\ "error" \notin last.logs) =>
    last.ret = SubstituteEvery(IF last.hit THEN last.pre ELSE last.text, last.vars)

(* C7 as claimed: in local mode t() of the source returns a key that has   *)
(* no entry for the requested language unchanged, whatever vars holds.     *)
C7_MissReturnsKey_AsClaimed ==
  (LocalT("source") /\ ~last.hit) => last.ret = last.key

(* C7 as amended: in local mode t() of the source returns a key that has   *)
(* no entry for the requested language unchanged whenever no name of vars  *)
(* occurs as %name% in the key.                                            *)
C7_MissReturnsKey ==
  (LocalT("source") /\ ~last.hit
     /\ \A n \in VarNames(last.vars) : ~Contains(last.key, Placeholder(n))) =>
    last.ret = last.key

C7_Witness ==
  /\ LocalT("source") /\ ~last.hit /\ last.vars # NoVars
  /\ last.key = <<Placeholder("u")>> /\ last.ret = last.key
  /\ Pairs(locales) # {}

(* C9: in local mode, when the requested language has no entry for the key *)
(* and the default language has one, t() of the source returns the default *)
(* language's value, and the key only when neither has it.                 *)
C9_DefaultLanguageFallback ==
  (LocalT("source") /\ last.vars = NoVars) =>
    last.ret = (IF HasEntry(last.before, last.lang, last.key)
                THEN last.before[last.lang][last.key]
                ELSE IF HasEntry(last.before, Default, last.key)
                THEN last.before[Default][last.key]
                ELSE last.key)

(* C10 as claimed: after load(), for every valid line of every .lang file, *)
(* t(trimmed key, language) without vars returns the line's trimmed value. *)
C10_EveryLineLoaded_AsClaimed ==
  LocalLoad("source") =>
    \A p \in LangLines(last.dir) :
      LineValid(LineAt(last.dir, p)) =>
        SourceReturn(locales, LineKey(LineAt(last.dir, p)),
                     LanguageOf(last.dir.entries[p[1]]))
          = LineValue(LineAt(last.dir, p))

(* C10 as amended: after load(), for every valid line of every .lang file  *)
(* load() reached that no later valid line for the same language and key   *)
(* overwrites, t(trimmed key, language) without vars returns the line's    *)
(* trimmed value.                                                          *)
C10_EveryLineLoaded ==
  LocalLoad("source") =>
    \A p \in LangLines(last.dir) :
      (/\ LineValid(LineAt(last.dir, p))
       /\ Reached(last.dir, p[1])
       /\ ~Overwritten(last.dir, p)) =>
        SourceReturn(locales, LineKey(LineAt(last.dir, p)),
                     LanguageOf(last.dir.entries[p[1]]))
          = LineValue(LineAt(last.dir, p))

C10_Witness ==
  /\ LocalLoad("source")
  /\ \E p \in LangLines(last.dir) :
       /\ LineValid(LineAt(last.dir, p))
       /\ Overwritten(last.dir, p)
       /\ SourceReturn(locales, LineKey(LineAt(last.dir, p)), Default)
            # LineValue(LineAt(last.dir, p))
       /\ SourceReturn(locales, LineKey(LineAt(last.dir, p)), Default)
            # LineKey(LineAt(last.dir, p))

\* the entries of the store that the last load() added or changed
LoadedPairs ==
  {pr \in Pairs(locales) :
     \/ ~HasEntry(last.before, pr[1], pr[2])
     \/ last.before[pr[1]][pr[2]] # locales[pr[1]][pr[2]]}

\* the lines of the files load() reached: <<entry, line>> positions
ReachedLines(dir) ==
  {p \in (1..Len(dir.entries)) \X (1..MaxLines + 1) :
     /\ Reached(dir, p[1])
     /\ p[2] <= Len(dir.entries[p[1]].lines)}

\* a string that is not empty and has no white space at either end
NonEmptyTrimmed(s) == s # EmptyStr /\ Trim(s) = s

(* C11: after load() every entry that the load added or changed comes from *)
(* a line that is no comment and is key=value with a non-empty key and a   *)
(* non-empty value (lines without "=", without key, without value, blank   *)
(* lines and lines starting with "#" add and change nothing), and its key  *)
(* and its value are non-empty trimmed strings.                            *)
C11_NoEntryFromMalformedLine ==
  LocalLoad("source") =>
    \A pr \in LoadedPairs :
      /\ \E p \in ReachedLines(last.dir) :
           /\ LineValid(LineAt(last.dir, p))
           /\ LanguageOf(last.dir.entries[p[1]]) = pr[1]
           /\ LineKey(LineAt(last.dir, p)) = pr[2]
           /\ LineValue(LineAt(last.dir, p)) = locales[pr[1]][pr[2]]
      /\ NonEmptyTrimmed(pr[2])
      /\ NonEmptyTrimmed(locales[pr[1]][pr[2]])

C11_Witness ==
  /\ LocalLoad("source")
  /\ HasEntry(last.before, Default, <<"k">>)
  /\ locales = last.before
  /\ \E p \in ReachedLines(last.dir) : LineAt(last.dir, p) = <<"k", "=">>
  /\ \E p \in ReachedLines(last.dir) : LineAt(last.dir, p) = <<"#", "k", "=", "v">>

\* the last completed operation is a load() of program i in local mode
LocalLoadCall(i) == impl = i /\ ~online /\ last.op = "load"

\* the directory the last load() listed has a file with the .lang extension
HasLangFile(dir) == \E i \in 1..Len(dir.entries) : dir.entries[i].ext = ".lang"

(* C12: a load() that follows a load() of the same unchanged directory     *)
(* leaves the store as the first one left it; and no load() removes an     *)
(* entry: every (language, key) that had an entry before the call has one  *)
(* after it, with the same value unless a valid line of a file that the    *)
(* load read sets that key for that language.                              *)
C12_ReloadIdempotentAdditive ==
  LocalLoadCall("source") =>
    /\ last.repeat => locales = last.before
    /\ \A pr \in Pairs(last.before) :
         /\ HasEntry(locales, pr[1], pr[2])
         /\ locales[pr[1]][pr[2]] # last.before[pr[1]][pr[2]] =>
              \E p \in ReachedLines(last.dir) :
                /\ LineValid(LineAt(last.dir, p))
                /\ LanguageOf(last.dir.entries[p[1]]) = pr[1]
                /\ LineKey(LineAt(last.dir, p)) = pr[2]

C12_Witness ==
  /\ LocalLoadCall("source") /\ last.repeat
  /\ last.dir = Directory(<<LangFile(Default, <<<<"k", "=", "v">>>>)>>)
  /\ HasEntry(locales, Default, <<"j">>)
  /\ HasEntry(locales, Default, <<"k">>)
  /\ HasEntry(locales, "en", <<"k">>)

(* C13: in local mode, when the configured directory is missing or is not  *)
(* a directory, load() reports at fatal severity, completes, and leaves    *)
(* the store unchanged.                                                    *)
C13_BadDirectoryFatal ==
  (LocalLoadCall("source") /\ last.dir.kind # "dir") =>
    /\ "fatal" \in last.logs
    /\ locales = last.before

(* C14 as claimed: in local mode, when the directory lists no file with    *)
(* the .lang extension, load() reports a warning and the store holds no    *)
(* entries when it completes, whatever it held before.                     *)
C14_NoLangFileWarns_AsClaimed ==
  (LocalLoad("source") /\ ~HasLangFile(last.dir)) =>
    /\ "warn" \in last.logs
    /\ Pairs(locales) = {}

(* C14 as amended: in local mode, when the directory lists no file with    *)
(* the .lang extension, load() reports a warning, reads no file, and       *)
(* leaves the store as it was before the call.                             *)
C14_NoLangFileWarns ==
  (LocalLoad("source") /\ ~HasLangFile(last.dir)) =>
    /\ "warn" \in last.logs
    /\ locales = last.before
    /\ last.fs = <<"stat", "readdir">>

C14_Witness ==
  /\ LocalLoad("source") /\ ~HasLangFile(last.dir)
  /\ last.dir.entries # <<>> /\ last.dir.entries[1].readable
  /\ Pairs(locales) # {}
  /\ "warn" \in last.logs

(* C16: in online mode load() calls no file-system operation and leaves    *)
(* the store unchanged, whatever the directory is.                         *)
C16_OnlineLoadNoOp ==
  (impl = "source" /\ online /\ last.op = "load") =>
    /\ last.fs = <<>>
    /\ locales = last.before

C16_Witness ==
  /\ impl = "source" /\ online /\ last.op = "load"
  /\ HasLangFile(last.dir)
  /\ Pairs(locales) # {}
  /\ last.fs = <<>>

(* C15: reset() is the only deletion path: every step of load(), of t()    *)
(* and of a completing translation keeps every (language, key) that has an *)
(* entry, so between two resets the set of pairs with an entry only grows. *)
C15_OnlyResetDeletes ==
  [][Reset \/ Pairs(locales) \subseteq Pairs(locales')]_vars

C15_Witness ==
  /\ impl = "source" /\ last.op \in {"t", "load"}
  /\ Pairs(last.before) # {}
  /\ Pairs(last.before) \subseteq Pairs(locales)
  /\ Pairs(last.before) # Pairs(locales)
  /\ DOMAIN last.before = DOMAIN locales

(* C17: every t() call of the build that waits on the Translation Client   *)
(* returns once the client call completes, with a result or a failure; and *)
(* a call in local mode, or one that finds its (language, key) in the      *)
(* store, has returned without a client call.                              *)
C17_EveryCallReturns ==
  /\ (pending # <<>>) ~> (pending = <<>> /\ last.op = "t" /\ last.invoked)
  /\ []((impl = "build" /\ last.op = "t" /\ (last.hit \/ ~online))
         => ~last.invoked)

C17_Witness ==
  /\ OnlineT("build") /\ last.invoked /\ ~last.ok
  /\ pending = <<>> /\ last.lang = "en"
  /\ Pairs(last.before) # {}

\* the client requests in flight that were made since the last reset()
InFlight == {i \in 1..Len(pending) : ~pending[i].detached}

(* C18: in online mode the build invokes the Translation Client at most    *)
(* once for a (language, key) between resets, also when a second t() call  *)
(* for the pair starts while the first call's request is pending: no two   *)
(* requests made since the last reset() are in flight for the same pair.   *)
C18_AtMostOneTranslation ==
  (impl = "build" /\ online) =>
    \A i \in InFlight, j \in InFlight :
      (pending[i].call.lang = pending[j].call.lang
         /\ pending[i].call.key = pending[j].call.key) => i = j

(* C19: in online mode, after a translation of the build failed, the store *)
(* holds the call's original source text for (language, key), and until    *)
(* reset() every later t() call for that pair returns that text with the   *)
(* variables substituted, without invoking the Translation Client.         *)
C19_FailureIsCached ==
  (impl = "build" /\ online) =>
    \A f \in failed :
      /\ HasEntry(locales, f[1], f[2])
      /\ locales[f[1]][f[2]] = f[3]
      /\ (last.op = "t" /\ last.lang = f[1] /\ last.key = f[2] /\ last.hit) =>
           /\ ~last.invoked
           /\ last.ret = SubstituteEvery(f[3], last.vars)

C19_Witness ==
  /\ OnlineT("build") /\ last.hit /\ ~last.invoked
  /\ <<last.lang, last.key, last.pre>> \in failed
  /\ last.text # last.pre
  /\ last.ret # last.pre

\* the characters the values of the variables are made of
ValueTokens == {"A", "B", "C"}

\* the characters of the values of vs
ValuesOf(vs) == UNION {{vs[i][2][j] : j \in 1..Len(vs[i][2])} : i \in 1..Len(vs)}

(* C20: in online mode the build interpolates the variables after the      *)
(* translation and never into the store: no stored text holds a value of   *)
(* vars, and a call t(text, key, language, V2) that follows a call         *)
(* t(text, key, language, V1) which invoked the client returns the stored  *)
(* text with the values of V2 substituted, and none of V1.                 *)
C20_VarsNotCached ==
  (impl = "build" /\ online) =>
    /\ \A pr \in Pairs(locales) :
         \A i \in 1..Len(locales[pr[1]][pr[2]]) :
           locales[pr[1]][pr[2]][i] \notin ValueTokens
    /\ (last.op = "t" /\ last.revar) =>
         /\ ~last.invoked
         /\ last.ret = SubstituteEvery(StoredNow, last.vars)
         /\ \A i \in 1..Len(last.ret) :
              last.ret[i] \in ValueTokens => last.ret[i] \in ValuesOf(last.vars)

C20_Witness ==
  /\ OnlineT("build") /\ last.revar
  /\ last.vars = <<<<"u", <<"C">>>>>>
  /\ Contains(last.ret, "C")
  /\ Contains(StoredNow, Placeholder("u"))
  /\ StoredNow # last.text

\* the step settles a client request that was made before the last reset()
SettlesDetached ==
  \E i \in 1..Len(pending) :
    pending[i].detached /\ pending' = Remove(pending, i)

C22_LocalCallFrame ==
  LocalT("source") =>
    /\ ~last.invoked
    /\ pending = <<>>
    /\ \A l \in DOMAIN last.before :
         l \in DOMAIN locales /\ locales[l] = last.before[l]
    /\ \A l \in DOMAIN locales \ DOMAIN last.before :
         l = last.lang /\ locales[l] = EmptyMap

C22_Witness ==
  /\ LocalT("source")
  /\ Pairs(last.before) # {}
  /\ "en" \in DOMAIN locales \ DOMAIN last.before
  /\ last.vars # NoVars

(* C23: after load() every language that got an entry from the load is the *)
(* base name of a file with the .lang extension in the directory: a file   *)
(* with another extension contributes no language and no entry.            *)
C23_OnlyLangFilesLoaded ==
  LocalLoad("source") =>
    \A pr \in LoadedPairs :
      \E i \in 1..Len(last.dir.entries) :
        /\ last.dir.entries[i].ext = ".lang"
        /\ last.dir.entries[i].base = pr[1]

\* the entries of a store: the value of every (language, key) that has one
Entries(loc) == [pr \in Pairs(loc) |-> loc[pr[1]][pr[2]]]

(* C24: given the same online t() and reset() calls and the same client    *)
(* responses, the build and the source return the same string, both invoke *)
(* the Translation Client or neither does, and their stores hold the same  *)
(* entries when the call has returned.                                     *)
C24_BuildMatchesSource ==
  (twin.on /\ impl = "build" /\ online /\ pending = <<>> /\ last.op = "t") =>
    /\ last.invoked = twin.invoked
    /\ last.ret = twin.ret
    /\ Entries(locales) = Entries(twin.locales)

====
